---- MODULE Spec2Model ----
(***************************************************************************)
(* Model of normalizeAIContent (src/src/pages/ChatApp.tsx, lines 81-137):  *)
(* the reply normaliser that strips paste artifacts, groups code-like      *)
(* lines into fenced blocks and guesses a language tag per block.          *)
(*                                                                         *)
(* A string is a sequence of one-character strings, so that the regular    *)
(* expressions of the source are evaluated character by character.         *)
(***************************************************************************)
EXTENDS Naturals, Sequences, FiniteSets

VARIABLES
    content,       \* the argument of normalizeAIContent (line 81)
    cleanedLines,  \* the artifact-stripped lines (lines 83-91)
    i,             \* the cursor of the loop (line 110), counted from 1
    out,           \* the lines pushed by the loop (line 109)
    emitted,       \* for each element of out, what pushed it: "open"
                   \* (line 119), "close" (line 121), "line" (120, 123)
    result,        \* the returned text (lines 133, 136)
    pc,            \* the position in the function
    pass           \* 1 for a call on an input, 2 for the call on its result

vars == <<content, cleanedLines, i, out, emitted, result, pc, pass>>

\* Largest number of lines of an input reply.
MaxLines == 3

-----------------------------------------------------------------------------
(* Character classes of the JavaScript regular expressions.                *)

\* \s (and String.prototype.trim): the white space characters of the model.
WS == {" ", "\t", "\n", "\r"}

\* The line terminators: the dot does not match them, and ^ with the m flag
\* matches after them.
LineTerm == {"\n", "\r"}

UpperCase == <<"A","B","C","D","E","F","G","H","I","J","K","L","M",
               "N","O","P","Q","R","S","T","U","V","W","X","Y","Z">>
LowerCase == <<"a","b","c","d","e","f","g","h","i","j","k","l","m",
               "n","o","p","q","r","s","t","u","v","w","x","y","z">>
Digits == {"0","1","2","3","4","5","6","7","8","9"}

\* \w: the word characters, which decide \b.
WordChar(c) ==
    \/ \E k \in 1..26 : c = UpperCase[k] \/ c = LowerCase[k]
    \/ c \in Digits
    \/ c = "_"

\* Case folding of the i flag.
ToLower(c) ==
    IF \E k \in 1..26 : c = UpperCase[k]
    THEN LowerCase[CHOOSE k \in 1..26 : c = UpperCase[k]]
    ELSE c

-----------------------------------------------------------------------------
(* The literals of the source.                                             *)

\* The backquote character (U+0060), which a TLA+ string cannot contain.
BT == "BACKQUOTE"

\* The fence marker: three backquotes.
Fence == <<BT, BT, BT>>
CopyTok == <<"C","o","p","y">>
CopyhljsTok == <<"c","o","p","y","h","l","j","s">>
IncludeTok == <<"#","i","n","c","l","u","d","e">>
StdTok == <<"s","t","d",":",":">>

-----------------------------------------------------------------------------
(* Matching helpers.                                                       *)

\* pat occurs in s at position p.
MatchAt(s, p, pat) ==
    /\ p >= 1
    /\ p + Len(pat) - 1 <= Len(s)
    /\ \A k \in 1..Len(pat) : s[p + k - 1] = pat[k]

\* pat occurs in s at position p, ignoring case (pat is in lower case).
MatchAtCI(s, p, pat) ==
    /\ p >= 1
    /\ p + Len(pat) - 1 <= Len(s)
    /\ \A k \in 1..Len(pat) : ToLower(s[p + k - 1]) = pat[k]

Contains(s, pat) == \E p \in 1..Len(s) : MatchAt(s, p, pat)

\* s[p..q-1] is white space only (\s* between p and q).
AllWS(s, p, q) == \A k \in p..(q - 1) : s[k] \in WS

\* \b between position p-1 and p of s, where s[p-1] is a word character.
BoundaryAfterWord(s, p) == p > Len(s) \/ ~WordChar(s[p])

\* ^\s*pat without the m flag: pat after optional white space at the start.
StartsWS(s, pat) ==
    \E p \in 1..(Len(s) + 1) : AllWS(s, 1, p) /\ MatchAt(s, p, pat)

\* ^\s*pat\s+ without the m flag.
StartsWSThenWS(s, pat) ==
    \E p \in 1..(Len(s) + 1) :
        /\ AllWS(s, 1, p)
        /\ MatchAt(s, p, pat)
        /\ p + Len(pat) <= Len(s)
        /\ s[p + Len(pat)] \in WS

\* String.prototype.trim
Trim(s) ==
    IF \A k \in 1..Len(s) : s[k] \in WS THEN <<>>
    ELSE LET f == CHOOSE a \in 1..Len(s) : s[a] \notin WS /\ AllWS(s, 1, a)
             l == CHOOSE b \in 1..Len(s) :
                      s[b] \notin WS /\ AllWS(s, b + 1, Len(s) + 1)
         IN SubSeq(s, f, l)

\* String.prototype.split("\n"): the text from position p on.
RECURSIVE SplitFrom(_, _)
SplitFrom(s, p) ==
    IF \E k \in p..Len(s) : s[k] = "\n"
    THEN LET n == CHOOSE k \in p..Len(s) :
                      s[k] = "\n" /\ \A j \in p..(k - 1) : s[j] # "\n"
         IN <<SubSeq(s, p, n - 1)>> \o SplitFrom(s, n + 1)
    ELSE <<SubSeq(s, p, Len(s))>>

Split(s) == SplitFrom(s, 1)

\* Array.prototype.join("\n")
RECURSIVE Join(_)
Join(ls) ==
    IF Len(ls) = 0 THEN <<>>
    ELSE IF Len(ls) = 1 THEN ls[1]
    ELSE ls[1] \o <<"\n">> \o Join(Tail(ls))

-----------------------------------------------------------------------------
(* The artifact stripper.                                                  *)

\* KeepLine with a filter that also drops the blank lines.
KeepLineDropBlank(line) ==
    LET trimmed == Trim(line)
    IN /\ trimmed # <<>>
       /\ trimmed # CopyTok
       /\ ~(MatchAtCI(trimmed, 1, CopyhljsTok) /\ BoundaryAfterWord(trimmed, 9))

\* The filter callback: false for a line to drop.
KeepLine(line) ==
    LET trimmed == Trim(line)
    IN /\ trimmed # CopyTok
       /\ ~(MatchAtCI(trimmed, 1, CopyhljsTok) /\ BoundaryAfterWord(trimmed, 9))

\* /\s+Copyhljs\b.*$/i matches line from position p.
MidLineMatch(line, p) ==
    \E q \in (p + 1)..Len(line) :
        /\ AllWS(line, p, q)
        /\ MatchAtCI(line, q, CopyhljsTok)
        /\ BoundaryAfterWord(line, q + 8)
        /\ \A k \in (q + 8)..Len(line) : line[k] \notin LineTerm

\* The map callback: line.replace(/\s+Copyhljs\b.*$/i, "")
StripMidLine(line) ==
    IF \E p \in 1..Len(line) : MidLineMatch(line, p)
    THEN LET p == CHOOSE a \in 1..Len(line) :
                      MidLineMatch(line, a)
                      /\ \A b \in 1..(a - 1) : ~MidLineMatch(line, b)
         IN SubSeq(line, 1, p - 1)
    ELSE line

Filter(ls) == SelectSeq(ls, KeepLine)

CleanedLines(s) ==
    LET kept == Filter(Split(s))
    IN [k \in 1..Len(kept) |-> StripMidLine(kept[k])]

-----------------------------------------------------------------------------
(* The code-line classifier.                                               *)

\* isCodeLine with the semicolon left out of the pattern.
isCodeLineNoSemicolon(line) ==
    /\ Len(Trim(line)) # 0
    /\ \/ Contains(line, <<"{">>)
       \/ Contains(line, <<"}">>)
       \/ Contains(line, IncludeTok)
       \/ Contains(line, StdTok)
       \/ (Len(line) >= 2 /\ line[1] \in WS /\ line[2] \in WS)
       \/ StartsWS(line, <<"/","/">>)
       \/ StartsWS(line, <<"#">>)
       \/ StartsWS(line, <<"g","+","+">>)
       \/ StartsWS(line, <<".","/">>)
       \/ StartsWS(line, <<"n","p","m"," ">>)
       \/ StartsWS(line, <<"y","a","r","n"," ">>)
       \/ StartsWS(line, <<"p","n","p","m"," ">>)

isCodeLine(line) ==
    /\ Len(Trim(line)) # 0
    /\ \/ Contains(line, <<";">>)
       \/ Contains(line, <<"{">>)
       \/ Contains(line, <<"}">>)
       \/ Contains(line, IncludeTok)
       \/ Contains(line, StdTok)
       \/ (Len(line) >= 2 /\ line[1] \in WS /\ line[2] \in WS)
       \/ StartsWS(line, <<"/","/">>)
       \/ StartsWS(line, <<"#">>)
       \/ StartsWS(line, <<"g","+","+">>)
       \/ StartsWS(line, <<".","/">>)
       \/ StartsWS(line, <<"n","p","m"," ">>)
       \/ StartsWS(line, <<"y","a","r","n"," ">>)
       \/ StartsWS(line, <<"p","n","p","m"," ">>)

-----------------------------------------------------------------------------
(* The language sniffer.                                                   *)

\* /int\s+main\s*\(/
IntMain(text) ==
    \E p \in 1..Len(text) :
        /\ MatchAt(text, p, <<"i","n","t">>)
        /\ \E q \in (p + 4)..Len(text) :
              /\ AllWS(text, p + 3, q)
              /\ MatchAt(text, q, <<"m","a","i","n">>)
              /\ \E r \in (q + 4)..Len(text) :
                    AllWS(text, q + 4, r) /\ text[r] = "("

\* ^ with the m flag: the start of the text or just after a line terminator.
LineStart(text, p) ==
    p = 1 \/ (p - 1 <= Len(text) /\ text[p - 1] \in LineTerm)

\* /^\s*(g\+\+|\.\/|bash\b)/m
BashSignal(text) ==
    \E a \in 1..(Len(text) + 1) :
        /\ LineStart(text, a)
        /\ \E p \in a..(Len(text) + 1) :
              /\ AllWS(text, a, p)
              /\ \/ MatchAt(text, p, <<"g","+","+">>)
                 \/ MatchAt(text, p, <<".","/">>)
                 \/ (MatchAt(text, p, <<"b","a","s","h">>)
                     /\ BoundaryAfterWord(text, p + 4))

\* /:\s*$/
ColonAtEnd(text) ==
    \E p \in 1..Len(text) : text[p] = ":" /\ AllWS(text, p + 1, Len(text) + 1)

detectLang(block) ==
    LET text == Join(block)
    IN IF Contains(text, IncludeTok) \/ Contains(text, StdTok) \/ IntMain(text)
       THEN "cpp"
       ELSE IF BashSignal(text) THEN "bash"
       ELSE IF \/ StartsWSThenWS(text, <<"i","m","p","o","r","t">>)
               \/ StartsWSThenWS(text, <<"e","x","p","o","r","t">>)
               \/ Contains(text, <<"=",">">>)
       THEN "ts"
       ELSE IF \/ StartsWSThenWS(text, <<"d","e","f">>)
               \/ StartsWSThenWS(text, <<"c","l","a","s","s">>)
               \/ ColonAtEnd(text)
       THEN "python"
       ELSE "undefined"

\* lang || ""
LangStr(lang) ==
    CASE lang = "cpp" -> <<"c","p","p">>
      [] lang = "bash" -> <<"b","a","s","h">>
      [] lang = "ts" -> <<"t","s">>
      [] lang = "python" -> <<"p","y","t","h","o","n">>
      [] OTHER -> <<>>

\* The fence marker + (lang || "")
FenceOpen(lang) == Fence \o LangStr(lang)

-----------------------------------------------------------------------------
(* The grouping loop and the whole-response fallback.                      *)

\* RunEnd with an inner loop that stops after one line.
RunEndOneLine(start) == start + 1

\* The inner while: the first position from start on that is not code-like.
RunEnd(start) ==
    IF \E k \in start..Len(cleanedLines) : ~isCodeLine(cleanedLines[k])
    THEN CHOOSE k \in start..Len(cleanedLines) :
             /\ ~isCodeLine(cleanedLines[k])
             /\ \A j \in start..(k - 1) : isCodeLine(cleanedLines[j])
    ELSE Len(cleanedLines) + 1

\* Block with slice(start + 1, i).
BlockSkipFirst(start, end) == SubSeq(cleanedLines, start + 1, end - 1)

\* cleanedLines.slice(start, i), positions counted from 1.
Block(start, end) == SubSeq(cleanedLines, start, end - 1)

HasFence(s) == Contains(s, Fence)

\* One alternative of /(;|\{|\}|#include|std::)/ matches s at p: its length.
HintLenAt(s, p) ==
    IF s[p] \in {";", "{", "}"} THEN 1
    ELSE IF MatchAt(s, p, IncludeTok) THEN Len(IncludeTok)
    ELSE IF MatchAt(s, p, StdTok) THEN Len(StdTok)
    ELSE 0

\* (result.match(/(;|\{|\}|#include|std::)/g) || []).length from position p.
RECURSIVE HintsFrom(_, _)
HintsFrom(s, p) ==
    IF p > Len(s) THEN 0
    ELSE IF HintLenAt(s, p) > 0 THEN 1 + HintsFrom(s, p + HintLenAt(s, p))
    ELSE HintsFrom(s, p + 1)

HintCount(s) == HintsFrom(s, 1)

\* The condition of the fallback, on the joined output of the loop.
FallbackTaken(r) ==
    /\ ~HasFence(r)
    /\ Len(Split(r)) > 2
    /\ HintCount(r) >= 2

\* The value returned for the lines o pushed by the loop.
Return(o, cleaned) ==
    LET r == Join(o)
    IN IF FallbackTaken(r)
       THEN FenceOpen(detectLang(cleaned)) \o <<"\n">> \o Trim(r)
                \o <<"\n">> \o Fence
       ELSE r

-----------------------------------------------------------------------------
(* The inputs.                                                             *)

InputLines ==
    { <<>>,
      <<" ", " ">>,
      <<"x">>,
      <<"x", ";">>,
      Fence,
      CopyTok,
      CopyTok \o <<" ">> \o CopyTok \o <<"h","l","j","s",";",";">>,
      <<"C","O","P","Y","h","l","j","s">>,
      <<" ", " ", "x", ":">>,
      <<"i","m","p","o","r","t"," ","x",";">>,
      IncludeTok,
      <<".", "/", "x">> }

RECURSIVE LineSeqs(_)
LineSeqs(n) ==
    IF n = 0 THEN {<<>>}
    ELSE LET shorter == LineSeqs(n - 1)
         IN shorter \cup { Append(ls, l) : ls \in {s \in shorter : Len(s) = n - 1},
                                           l \in InputLines }

Inputs == { Join(ls) : ls \in LineSeqs(MaxLines) \ {<<>>} }

-----------------------------------------------------------------------------
(* The state machine.                                                      *)

Init ==
    /\ content \in Inputs
    /\ cleanedLines = <<>>
    /\ i = 1
    /\ out = <<>>
    /\ emitted = <<>>
    /\ result = <<>>
    /\ pc = "strip"
    /\ pass = 1

\* split, filter, map; then out = [] and i = 0.
StripArtifacts ==
    /\ pc = "strip"
    /\ cleanedLines' = CleanedLines(content)
    /\ i' = 1
    /\ out' = <<>>
    /\ emitted' = <<>>
    /\ pc' = "loop"
    /\ UNCHANGED <<content, result, pass>>

\* GroupCode without the push of the closing fence.
GroupCodeNoClose ==
    /\ pc = "loop"
    /\ i <= Len(cleanedLines)
    /\ isCodeLine(cleanedLines[i])
    /\ LET end == RunEnd(i)
           block == Block(i, end)
           lang == detectLang(block)
       IN /\ out' = out \o <<FenceOpen(lang)>> \o block
          /\ emitted' = emitted \o <<"open">>
                            \o [k \in 1..Len(block) |-> "line"]
          /\ i' = end
    /\ UNCHANGED <<content, cleanedLines, result, pc, pass>>

\* The loop body when cleanedLines[i] is code-like.
GroupCode ==
    /\ pc = "loop"
    /\ i <= Len(cleanedLines)
    /\ isCodeLine(cleanedLines[i])
    /\ LET end == RunEnd(i)
           block == Block(i, end)
           lang == detectLang(block)
       IN /\ out' = out \o <<FenceOpen(lang)>> \o block \o <<Fence>>
          /\ emitted' = emitted \o <<"open">>
                            \o [k \in 1..Len(block) |-> "line"] \o <<"close">>
          /\ i' = end
    /\ UNCHANGED <<content, cleanedLines, result, pc, pass>>

\* The loop body when cleanedLines[i] is not code-like.
GroupProse ==
    /\ pc = "loop"
    /\ i <= Len(cleanedLines)
    /\ ~isCodeLine(cleanedLines[i])
    /\ out' = Append(out, cleanedLines[i])
    /\ emitted' = Append(emitted, "line")
    /\ i' = i + 1
    /\ UNCHANGED <<content, cleanedLines, result, pc, pass>>

\* After the loop: join, the fallback, return.
Finish ==
    /\ pc = "loop"
    /\ i > Len(cleanedLines)
    /\ result' = Return(out, cleanedLines)
    /\ pc' = "done"
    /\ UNCHANGED <<content, cleanedLines, i, out, emitted, pass>>

\* normalizeAIContent applied to its own result.
Renormalize ==
    /\ pc = "done"
    /\ pass = 1
    /\ content' = result
    /\ pass' = 2
    /\ pc' = "strip"
    /\ cleanedLines' = <<>>
    /\ i' = 1
    /\ out' = <<>>
    /\ emitted' = <<>>
    /\ UNCHANGED result

Next ==
    \/ StripArtifacts
    \/ GroupCode
    \/ GroupProse
    \/ Finish
    \/ Renormalize

Spec == Init /\ [][Next]_vars

TypeOK ==
    /\ pc \in {"strip", "loop", "done"}
    /\ pass \in {1, 2}
    /\ Len(emitted) = Len(out)
    /\ i \in 1..(Len(cleanedLines) + 1)
-----------------------------------------------------------------------------
(* Vocabulary of the properties.                                           *)

Marks == {emitted[k] : k \in 1..Len(emitted)}

\* The lines of o that the loop did not emit as fence markers.
RECURSIVE Unfenced(_, _)
Unfenced(o, e) ==
    IF Len(o) = 0 THEN <<>>
    ELSE IF e[1] = "line" THEN <<o[1]>> \o Unfenced(Tail(o), Tail(e))
    ELSE Unfenced(Tail(o), Tail(e))

\* out[a] and out[b] are the fence-open and fence-close of one emitted block.
IsBlock(a, b) ==
    /\ a < b
    /\ emitted[a] = "open"
    /\ emitted[b] = "close"
    /\ \A j \in (a + 1)..(b - 1) : emitted[j] = "line"

\* out[k] is a line of an emitted block.
Inside(k) ==
    /\ emitted[k] = "line"
    /\ \E a \in 1..(k - 1) :
          emitted[a] = "open" /\ \A j \in (a + 1)..k : emitted[j] = "line"

\* The text s has a fenced block: a line starting with the fence marker and
\* a later line that is the fence marker.
OutputFenced(s) ==
    LET ls == Split(s)
    IN \E a, b \in 1..Len(ls) :
          a < b /\ MatchAt(ls[a], 1, Fence) /\ ls[b] = Fence

\* As OutputFenced, with at least one content line between the fences.
HasFencedBlock(s) ==
    LET ls == Split(s)
    IN \E a, b \in 1..Len(ls) :
          a + 1 < b /\ MatchAt(ls[a], 1, Fence) /\ ls[b] = Fence

LoopDone == pc = "loop" /\ i > Len(cleanedLines)

Langs == {"cpp", "bash", "ts", "python", "undefined"}

\* The signals of the language sniffer as the specification words them,
\* the line-anchored ones searched on every line of the block.
CppSignal(block) ==
    LET text == Join(block)
    IN Contains(text, IncludeTok) \/ Contains(text, StdTok) \/ IntMain(text)

TsSignal(block) ==
    \/ \E k \in 1..Len(block) :
          \/ StartsWSThenWS(block[k], <<"i","m","p","o","r","t">>)
          \/ StartsWSThenWS(block[k], <<"e","x","p","o","r","t">>)
    \/ Contains(Join(block), <<"=",">">>)

PythonSignal(block) ==
    \E k \in 1..Len(block) :
        \/ StartsWSThenWS(block[k], <<"d","e","f">>)
        \/ StartsWSThenWS(block[k], <<"c","l","a","s","s">>)
        \/ ColonAtEnd(block[k])

\* A line that the artifact stripper is meant to remove or cut.
IsCopyLine(line) == Trim(line) = CopyTok

StartsWithCopyhljs(line) ==
    LET t == Trim(line)
    IN MatchAtCI(t, 1, CopyhljsTok) /\ BoundaryAfterWord(t, 9)

HasMidLineCopyhljs(line) ==
    \E p \in 1..Len(line) :
        /\ line[p] \in WS
        /\ MatchAtCI(line, p + 1, CopyhljsTok)
        /\ BoundaryAfterWord(line, p + 9)

HasCopyhljs(line) == \E p \in 1..Len(line) : MatchAtCI(line, p, CopyhljsTok)

\* No line of s is code-like and no line of s is a paste artifact.
ProseOnly(s) ==
    \A k \in 1..Len(Split(s)) :
        LET line == Split(s)[k]
        IN ~isCodeLine(line) /\ ~IsCopyLine(line) /\ ~HasCopyhljs(line)

-----------------------------------------------------------------------------
(* The claims.                                                             *)

\* C1: an input that already contains a fenced block (fence line, content
\* lines, fence line) is returned unchanged, and no new fence is emitted.
C1_FencedInputUnchanged ==
    (pass = 1 /\ HasFencedBlock(content))
        => /\ "open" \notin Marks
           /\ pc = "done" => result = content

\* C2: normalizeAIContent is idempotent: normalising the result of a first
\* pass returns it unchanged.
C2_Idempotent ==
    (pc = "done" /\ pass = 2) => result = content

\* C3: deleting the emitted fence lines from the output leaves exactly the
\* artifact-stripped lines, in order and unaltered: at every step of the
\* loop for the lines consumed so far, and in the returned text.
C3_Partition ==
    /\ pc \in {"loop", "done"} =>
          Unfenced(out, emitted) = SubSeq(cleanedLines, 1, i - 1)
    /\ pc = "done" =>
          /\ i = Len(cleanedLines) + 1
          /\ result = Join(out)
          /\ (out # <<>> => Split(result) = out)

\* A run with a dropped artifact line, a fenced block and a prose line.
C3_Witness ==
    /\ pc = "done"
    /\ pass = 1
    /\ "open" \in Marks
    /\ Len(cleanedLines) < Len(Split(content))
    /\ \E k \in 1..Len(out) : emitted[k] = "line" /\ ~Inside(k)
    /\ \E k \in 1..Len(out) : Inside(k)

\* C4: no line of the output is a Copy line, starts with the whole word
\* Copyhljs, or contains white space followed by the whole word Copyhljs.
C4_NoArtifactInOutput ==
    pc = "done" =>
        \A k \in 1..Len(Split(result)) :
            LET line == Split(result)[k]
            IN /\ ~IsCopyLine(line)
               /\ ~StartsWithCopyhljs(line)
               /\ ~HasMidLineCopyhljs(line)

\* The shape the claim C5 requires when every line is code-like: one
\* fence-open line, the lines ls, one fence-close line.
SingleFence(r, ls) ==
    \E lang \in Langs : r = Join(<<FenceOpen(lang)>> \o ls \o <<Fence>>)

\* C5 as stated: an input with no fence marker, more than 2 lines and at
\* least 2 hints gets a fenced block, and exactly one fence around all its
\* lines when every line is code-like.
C5_InputFallbackWrapped ==
    (/\ pc = "done"
     /\ pass = 1
     /\ ~HasFence(content)
     /\ Len(Split(content)) > 2
     /\ HintCount(content) >= 2)
        => /\ OutputFenced(result)
           /\ (\A k \in 1..Len(Split(content)) : isCodeLine(Split(content)[k]))
                 => SingleFence(result, Split(content))

\* C5 as amended: the same, with the fence marker, the lines and the hints
\* counted on the artifact-stripped lines.
C5_CleanedFallbackWrapped ==
    (/\ pc = "done"
     /\ ~HasFence(Join(cleanedLines))
     /\ Len(cleanedLines) > 2
     /\ HintCount(Join(cleanedLines)) >= 2)
        => /\ OutputFenced(result)
           /\ (\A k \in 1..Len(cleanedLines) : isCodeLine(cleanedLines[k]))
                 => SingleFence(result, cleanedLines)

\* Three code-like lines with two hints or more, wrapped in one fence.
C5_Witness ==
    /\ pc = "done"
    /\ ~HasFence(Join(cleanedLines))
    /\ Len(cleanedLines) > 2
    /\ HintCount(Join(cleanedLines)) >= 2
    /\ \A k \in 1..Len(cleanedLines) : isCodeLine(cleanedLines[k])
    /\ SingleFence(result, cleanedLines)

\* C6: the tag of every emitted block follows the priority cpp > bash > ts
\* > python over the signals present in the block.
C6_LanguagePriority ==
    \A a, b \in 1..Len(out) :
        IsBlock(a, b) =>
            LET block == SubSeq(out, a + 1, b - 1)
            IN /\ CppSignal(block) => out[a] = FenceOpen("cpp")
               /\ (~CppSignal(block) /\ BashSignal(Join(block)))
                     => out[a] = FenceOpen("bash")
               /\ (/\ ~CppSignal(block)
                   /\ ~BashSignal(Join(block))
                   /\ TsSignal(block)
                   /\ PythonSignal(block))
                     => out[a] = FenceOpen("ts")

\* C7: an input with no code-like line and no paste artifact is returned
\* unchanged, with no fence added.
C7_ProseIdentity ==
    (pc = "done" /\ ProseOnly(content))
        => (result = content /\ Marks \subseteq {"line"})

\* A prose input of three lines, one of them white space only.
C7_Witness ==
    /\ pc = "done"
    /\ pass = 1
    /\ ProseOnly(content)
    /\ Len(Split(content)) = 3
    /\ \E k \in 1..3 :
          Len(Split(content)[k]) > 0 /\ Trim(Split(content)[k]) = <<>>
    /\ \E k \in 1..3 : Trim(Split(content)[k]) # <<>>
    /\ result = content

\* C8: in a block with no cpp and no bash signal, an import or export at
\* the start of any line gives ts; otherwise a def or class at the start of
\* any line, or a colon ending any line, gives python.
C8_SignalsOnEveryLine ==
    \A a, b \in 1..Len(out) :
        IsBlock(a, b) =>
            LET block == SubSeq(out, a + 1, b - 1)
            IN (~CppSignal(block) /\ ~BashSignal(Join(block))) =>
                  /\ TsSignal(block) => out[a] = FenceOpen("ts")
                  /\ (~TsSignal(block) /\ PythonSignal(block))
                        => out[a] = FenceOpen("python")

\* C9: every emitted block is a maximal run of code-like lines: its lines
\* are code-like and not blank, the lines around it are not code-like, a
\* fence-close is never followed by a fence-open, and no code-like line is
\* left outside a block.
C9_MaximalRuns ==
    \A k \in 1..Len(out) :
        /\ emitted[k] = "open" =>
              /\ k < Len(out) /\ Inside(k + 1)
              /\ k > 1 => (emitted[k - 1] = "line" /\ ~Inside(k - 1))
        /\ emitted[k] = "close" =>
              /\ k > 1 /\ Inside(k - 1)
              /\ k < Len(out) => emitted[k + 1] = "line"
        /\ Inside(k) =>
              /\ isCodeLine(out[k])
              /\ Trim(out[k]) # <<>>
              /\ k < Len(out)
              /\ emitted[k + 1] \in {"line", "close"}
        /\ (emitted[k] = "line" /\ ~Inside(k)) => ~isCodeLine(out[k])

\* A block of two lines whose run is ended by a line of white space only.
C9_Witness ==
    /\ pc = "done"
    /\ \E a, b \in 1..Len(out) :
          /\ IsBlock(a, b)
          /\ b > a + 2
          /\ b < Len(out)
          /\ Len(out[b + 1]) > 0
          /\ Trim(out[b + 1]) = <<>>

\* C10: the fallback is never taken: when the loop has emitted no fence
\* marker its output has no hint, so the returned text is the joined output
\* of the loop.
C10_FallbackNeverTaken ==
    /\ LoopDone =>
          /\ ~HasFence(Join(out)) => HintCount(Join(out)) = 0
          /\ ~FallbackTaken(Join(out))
    /\ pc = "done" => result = Join(out)

\* The loop ends on more than 2 unfenced lines of an input that had 2 hints
\* or more.
C10_Witness ==
    /\ LoopDone
    /\ pass = 1
    /\ ~HasFence(Join(out))
    /\ Len(Split(Join(out))) > 2
    /\ HintCount(content) >= 2
====
